---- MODULE Spec2Model ----
(***************************************************************************)
(* Model of the pull-and-stream-progress subsystem of Ollie:               *)
(* src-tauri/src/commands/models.rs, model_pull and model_pull_cancel,     *)
(* with the shared CancellationMap.                                        *)
(*                                                                         *)
(* A byte is its numeric value, a character its Unicode code point.  The   *)
(* alphabet is 0x0A '\n', 0x20 ' ', 0x31 '1', 0x78 'x' and the two bytes   *)
(* 0xC2 0xA0 that encode U+00A0 (a White_Space character that is not JSON  *)
(* whitespace); U+FFFD (65533) is the replacement character.               *)
(***************************************************************************)
EXTENDS Integers, Sequences, FiniteSets, TLC

\* ------------------------------------------------------------------ bounds
MaxChunks == 3
MaxCancels == 1
MaxChunkLen == 2
MaxStreamLen == 4

\* two invocations of model_pull, concurrent or one after the other
Pulls == {1, 2}
Cancellers == {101}
NoHolder == 0

\* ------------------------------------------------------- inputs of the run
CallerIds == {"a"}
None == "None"
Uuid(p) == IF p = 1 THEN "uuid-1" ELSE "uuid-2"
AllIds == CallerIds \cup {Uuid(p) : p \in Pulls}
Statuses == {200, 500}
CancelledMsg == "Cancelled by user"
BuildErrMsgs == {"builder error"}
SendErrMsgs == {"error sending request"}
ErrMsgs == {"connection reset", CancelledMsg}
Bytes == {10, 32, 49, 120, 194, 160}
ByteChunks == UNION {[1..n -> Bytes] : n \in 1..MaxChunkLen}
LineChunks == {<<49, 10>>, <<120>>}

\* --------------------------------------------------------- pure functions
\* char::is_whitespace on the characters of the alphabet
IsWhitespace(c) == c \in {10, 32, 160}

RECURSIVE TrimStart(_)
TrimStart(s) == IF s # <<>> /\ IsWhitespace(Head(s)) THEN TrimStart(Tail(s)) ELSE s

RECURSIVE TrimEnd(_)
TrimEnd(s) ==
  IF s # <<>> /\ IsWhitespace(s[Len(s)]) THEN TrimEnd(SubSeq(s, 1, Len(s) - 1)) ELSE s

\* str::trim
Trim(s) == TrimEnd(TrimStart(s))

\* String::from_utf8_lossy on one chunk: ASCII maps to itself, 0xC2 followed
\* by a continuation byte decodes to one character, every other maximal
\* invalid part becomes U+FFFD
RECURSIVE from_utf8_lossy(_)
from_utf8_lossy(bytes) ==
  IF bytes = <<>> THEN <<>>
  ELSE IF Head(bytes) < 128 THEN <<Head(bytes)>> \o from_utf8_lossy(Tail(bytes))
  ELSE IF Head(bytes) = 194 /\ Len(bytes) >= 2 /\ bytes[2] \in 128..191
       THEN <<(2 * 64) + (bytes[2] - 128)>> \o from_utf8_lossy(Tail(Tail(bytes)))
  ELSE <<65533>> \o from_utf8_lossy(Tail(bytes))

\* buffer.find('\n'): index of the first newline, 0 when there is none
RECURSIVE FindFrom(_, _)
FindFrom(s, i) ==
  IF i > Len(s) THEN 0 ELSE IF s[i] = 10 THEN i ELSE FindFrom(s, i + 1)

find(s) == FindFrom(s, 1)

\* serde_json::from_str::<Value> on a trimmed non-empty line of the alphabet:
\* only a run of digits is a JSON value
IsJson(line) == line # <<>> /\ \A i \in 1..Len(line) : line[i] = 49

RECURSIVE JsonValue(_)
JsonValue(line) ==
  IF line = <<>> THEN 0 ELSE 10 * JsonValue(SubSeq(line, 1, Len(line) - 1)) + 1

NoProgress == [status |-> "", value |-> 0, raw |-> <<>>]
ParsedProgress(line) == [status |-> "json", value |-> JsonValue(line), raw |-> <<>>]
ParsingError(line) == [status |-> "parsing_error", value |-> 0, raw |-> line]

Event(ev, id, err, prog) == [ev |-> ev, pull_id |-> id, error |-> err, progress |-> prog]

\* the progress notification of one extracted line inside the loop
LineProgress(id, line) ==
  IF IsJson(line) THEN Event("pull-progress", id, "", ParsedProgress(line))
  ELSE Event("pull-progress", id, "", ParsingError(line))

\* the inner loop over the buffer: extract lines up to each newline, skip the
\* empty ones; gives the non-empty lines in order and the remaining buffer
RECURSIVE Drain(_)
Drain(buf) ==
  LET pos == find(buf) IN
  IF pos = 0 THEN [lines |-> <<>>, rest |-> buf]
  ELSE LET line == Trim(SubSeq(buf, 1, pos - 1))
           more == Drain(SubSeq(buf, pos + 1, Len(buf)))
       IN IF line = <<>> THEN more
          ELSE [lines |-> <<line>> \o more.lines, rest |-> more.rest]

\* the notifications for the trailing buffered line after the loop
TrailingEvents(id, buf) ==
  IF Trim(buf) # <<>>
  THEN IF IsJson(Trim(buf))
       THEN <<Event("pull-progress", id, "", ParsedProgress(Trim(buf)))>>
       ELSE <<>>
  ELSE <<>>

\* StatusCode::is_success
is_success(status) == status \in 200..299

HttpError(status) ==
  IF status = 500 THEN "HTTP error: 500 Internal Server Error" ELSE "HTTP error"

\* Result / SimpleResponse values
NoResult == [kind |-> "none", success |-> FALSE, error |-> ""]
RustErr(e) == [kind |-> "Err", success |-> FALSE, error |-> e]
Response(ok, e) == [kind |-> "Ok", success |-> ok, error |-> e]


\* ------------------------------------------------------------------ state
VARIABLES
  pc,          \* position of each model_pull invocation
  pull_id,     \* its resolved pull identifier
  cancel_flag, \* its Arc<AtomicBool>
  map,         \* the CancellationMap: identifier -> invocation whose flag it holds
  lock,        \* holder of the map's Mutex
  buffer,      \* its line buffer (decoded characters)
  result,      \* value of the streaming loop (`result`)
  events,      \* notifications emitted by each invocation, in order
  ret,         \* value returned to the caller of model_pull
  nread,       \* chunks read by each invocation
  cpc,         \* position of each model_pull_cancel caller
  carg,        \* its pull_id argument
  cret,        \* value returned by its last call
  ncancel,     \* number of model_pull_cancel calls made
  path,        \* history: the exit path each invocation took
  received,    \* history: all bytes each invocation read
  lines,       \* history: non-empty lines each invocation extracted
  observed,    \* history: the loop saw the flag set at its check point
  cancelled,   \* history: where the pull was when a cancel succeeded on its flag
  after        \* history: chunks the pull read after a cancel succeeded on its flag

vars == <<pc, pull_id, cancel_flag, map, lock, buffer, result, events, ret, nread,
          cpc, carg, cret, ncancel, path, received, lines, observed, cancelled,
          after>>

pullvars == <<pc, pull_id, buffer, result, events, ret, nread, path, received, lines, observed>>
cancelvars == <<cpc, carg, cret, ncancel>>

Init ==
  /\ pc = [p \in Pulls |-> "idle"]
  /\ pull_id = [p \in Pulls |-> ""]
  /\ cancel_flag = [p \in Pulls |-> FALSE]
  /\ map = <<>>
  /\ lock = NoHolder
  /\ buffer = [p \in Pulls |-> <<>>]
  /\ result = [p \in Pulls |-> NoResult]
  /\ events = [p \in Pulls |-> <<>>]
  /\ ret = [p \in Pulls |-> NoResult]
  /\ nread = [p \in Pulls |-> 0]
  /\ cpc = [c \in Cancellers |-> "idle"]
  /\ carg = [c \in Cancellers |-> ""]
  /\ cret = [c \in Cancellers |-> NoResult]
  /\ ncancel = 0
  /\ path = [p \in Pulls |-> ""]
  /\ received = [p \in Pulls |-> <<>>]
  /\ lines = [p \in Pulls |-> <<>>]
  /\ observed = [p \in Pulls |-> FALSE]
  /\ cancelled = [p \in Pulls |-> ""]
  /\ after = [p \in Pulls |-> 0]

\* HashMap::insert: adds the entry, replacing one already under the key
insert(m, id, p) == [k \in (DOMAIN m) \cup {id} |-> IF k = id THEN p ELSE m[k]]

\* variant: the entry is left in the map
remove_Noop(m, id) == m

\* variant: the whole map is cleared
remove_Clear(m, id) == <<>>

\* HashMap::remove
remove(m, id) == [k \in (DOMAIN m) \ {id} |-> m[k]]

Emit(p, evs) == events' = [events EXCEPT ![p] = @ \o evs]

\* ------------------------------------------------------------- model_pull
\* entry: resolve the identifier, create the flag, take the lock of the map
Start(p, idopt) ==
  /\ pc[p] = "idle"
  /\ \A q \in 1..(p - 1) : pc[q] # "idle"
  /\ lock = NoHolder
  /\ lock' = p
  /\ pull_id' = [pull_id EXCEPT ![p] = IF idopt = None THEN Uuid(p) ELSE idopt]
  /\ cancel_flag' = [cancel_flag EXCEPT ![p] = FALSE]
  /\ pc' = [pc EXCEPT ![p] = "register"]
  /\ UNCHANGED <<map, buffer, result, events, ret, nread, path, received, lines,
                 observed, cancelled, after>>
  /\ UNCHANGED cancelvars

\* variant: the guard of the lock is kept in scope after the insert
Register_KeepLock(p) ==
  /\ pc[p] = "register"
  /\ lock = p
  /\ map' = insert(map, pull_id[p], p)
  /\ pc' = [pc EXCEPT ![p] = "build"]
  /\ UNCHANGED <<pull_id, cancel_flag, lock, buffer, result, events, ret, nread, path,
                 received, lines, observed, cancelled, after>>
  /\ UNCHANGED cancelvars

\* register the cancellation token and release the lock
Register(p) ==
  /\ pc[p] = "register"
  /\ lock = p
  /\ map' = insert(map, pull_id[p], p)
  /\ lock' = NoHolder
  /\ pc' = [pc EXCEPT ![p] = "build"]
  /\ UNCHANGED <<pull_id, cancel_flag, buffer, result, events, ret, nread, path,
                 received, lines, observed, cancelled, after>>
  /\ UNCHANGED cancelvars

\* the client is built: notify pull-start and send the request
BuildOk(p) ==
  /\ pc[p] = "build"
  /\ Emit(p, <<Event("pull-start", pull_id[p], "", NoProgress)>>)
  /\ pc' = [pc EXCEPT ![p] = "send"]
  /\ UNCHANGED <<pull_id, cancel_flag, map, lock, buffer, result, ret, nread, path,
                 received, lines, observed, cancelled, after>>
  /\ UNCHANGED cancelvars

\* building the client fails: `?` returns the error
BuildErr(p, msg) ==
  /\ pc[p] = "build"
  /\ ret' = [ret EXCEPT ![p] = RustErr(msg)]
  /\ path' = [path EXCEPT ![p] = "build"]
  /\ pc' = [pc EXCEPT ![p] = "returned"]
  /\ UNCHANGED <<pull_id, cancel_flag, map, lock, buffer, result, events, nread,
                 received, lines, observed, cancelled, after>>
  /\ UNCHANGED cancelvars

\* the request cannot be sent: `?` returns the error
SendErr(p, msg) ==
  /\ pc[p] = "send"
  /\ ret' = [ret EXCEPT ![p] = RustErr(msg)]
  /\ path' = [path EXCEPT ![p] = "send"]
  /\ pc' = [pc EXCEPT ![p] = "returned"]
  /\ UNCHANGED <<pull_id, cancel_flag, map, lock, buffer, result, events, nread,
                 received, lines, observed, cancelled, after>>
  /\ UNCHANGED cancelvars

\* a response arrives: a non-success status ends the pull, else stream
SendOk(p, status) ==
  /\ pc[p] = "send"
  /\ IF ~is_success(status)
     THEN /\ Emit(p, <<Event("pull-error", pull_id[p], HttpError(status), NoProgress)>>)
          /\ ret' = [ret EXCEPT ![p] = Response(FALSE, HttpError(status))]
          /\ path' = [path EXCEPT ![p] = "status"]
          /\ pc' = [pc EXCEPT ![p] = "returned"]
          /\ UNCHANGED buffer
     ELSE /\ buffer' = [buffer EXCEPT ![p] = <<>>]
          /\ pc' = [pc EXCEPT ![p] = "check"]
          /\ UNCHANGED <<events, ret, path>>
  /\ UNCHANGED <<pull_id, cancel_flag, map, lock, result, nread, received, lines,
                 observed, cancelled, after>>
  /\ UNCHANGED cancelvars

\* variant: the loop never looks at the flag
CheckBreaks_Never(flag) == FALSE

\* the check at the top of the loop: TRUE breaks with the cancellation error
CheckBreaks(flag) == flag

\* top of the loop: check cancellation
Check(p) ==
  /\ pc[p] = "check"
  /\ observed' = [observed EXCEPT ![p] = cancel_flag[p]]
  /\ IF CheckBreaks(cancel_flag[p])
     THEN /\ result' = [result EXCEPT ![p] = RustErr(CancelledMsg)]
          /\ path' = [path EXCEPT ![p] = "cancel"]
          /\ pc' = [pc EXCEPT ![p] = "lock_cleanup"]
     ELSE /\ pc' = [pc EXCEPT ![p] = "next"]
          /\ UNCHANGED <<result, path>>
  /\ UNCHANGED <<pull_id, cancel_flag, map, lock, buffer, events, ret, nread,
                 received, lines, cancelled, after>>
  /\ UNCHANGED cancelvars

\* chunks delivered so far, to all pulls
TotalRead == nread[1] + nread[2]

\* stream.next() yields Some(Ok(bytes)): feed the buffer, emit the lines
NextOk(p, bytes) ==
  /\ pc[p] = "next"
  /\ TotalRead < MaxChunks
  /\ Len(received[p]) + Len(bytes) <= MaxStreamLen
  /\ LET d == Drain(buffer[p] \o from_utf8_lossy(bytes)) IN
       /\ buffer' = [buffer EXCEPT ![p] = d.rest]
       /\ Emit(p, [i \in 1..Len(d.lines) |-> LineProgress(pull_id[p], d.lines[i])])
       /\ lines' = [lines EXCEPT ![p] = @ \o d.lines]
  /\ nread' = [nread EXCEPT ![p] = @ + 1]
  /\ received' = [received EXCEPT ![p] = @ \o bytes]
  /\ after' = [after EXCEPT ![p] = IF cancelled[p] # "" THEN @ + 1 ELSE @]
  /\ pc' = [pc EXCEPT ![p] = "check"]
  /\ UNCHANGED <<pull_id, cancel_flag, map, lock, result, ret, path, observed, cancelled>>
  /\ UNCHANGED cancelvars

\* stream.next() yields Some(Err(e)): break with the error text
NextErr(p, msg) ==
  /\ pc[p] = "next"
  /\ result' = [result EXCEPT ![p] = RustErr(msg)]
  /\ path' = [path EXCEPT ![p] = "error"]
  /\ pc' = [pc EXCEPT ![p] = "lock_cleanup"]
  /\ UNCHANGED <<pull_id, cancel_flag, map, lock, buffer, events, ret, nread,
                 received, lines, observed, cancelled, after>>
  /\ UNCHANGED cancelvars

\* variant: the end of the stream does not leave the loop
NextNone_Continue(p) ==
  /\ pc[p] = "next"
  /\ pc' = [pc EXCEPT ![p] = "check"]
  /\ UNCHANGED <<pull_id, cancel_flag, map, lock, buffer, result, events, ret, nread,
                 path, received, lines, observed, cancelled, after>>
  /\ UNCHANGED cancelvars

\* stream.next() yields None: break Ok(())
NextNone(p) ==
  /\ pc[p] = "next"
  /\ result' = [result EXCEPT ![p] = [kind |-> "Ok", success |-> TRUE, error |-> ""]]
  /\ path' = [path EXCEPT ![p] = "eof"]
  /\ pc' = [pc EXCEPT ![p] = "lock_cleanup"]
  /\ UNCHANGED <<pull_id, cancel_flag, map, lock, buffer, events, ret, nread,
                 received, lines, observed, cancelled, after>>
  /\ UNCHANGED cancelvars

\* after the loop: take the lock of the map
LockCleanup(p) ==
  /\ pc[p] = "lock_cleanup"
  /\ lock = NoHolder
  /\ lock' = p
  /\ pc' = [pc EXCEPT ![p] = "cleanup"]
  /\ UNCHANGED <<pull_id, cancel_flag, map, buffer, result, events, ret, nread, path,
                 received, lines, observed, cancelled, after>>
  /\ UNCHANGED cancelvars

\* remove the cancellation token and release the lock
Cleanup(p) ==
  /\ pc[p] = "cleanup"
  /\ lock = p
  /\ map' = remove(map, pull_id[p])
  /\ lock' = NoHolder
  /\ pc' = [pc EXCEPT ![p] = "finish"]
  /\ UNCHANGED <<pull_id, cancel_flag, buffer, result, events, ret, nread, path,
                 received, lines, observed, cancelled, after>>
  /\ UNCHANGED cancelvars

\* the notifications after the cleanup, from the value of the loop
FinalEvents(id, res, buf) ==
  IF res.kind = "Err"
  THEN IF res.error = CancelledMsg
       THEN <<Event("pull-cancelled", id, "", NoProgress)>>
       ELSE <<Event("pull-error", id, res.error, NoProgress)>>
  ELSE TrailingEvents(id, buf) \o <<Event("pull-complete", id, "", NoProgress)>>

\* the value returned after the cleanup
FinalResponse(res) ==
  IF res.kind = "Err" THEN Response(FALSE, res.error) ELSE Response(TRUE, "")

\* emit the terminal notification and return
Finish(p) ==
  /\ pc[p] = "finish"
  /\ Emit(p, FinalEvents(pull_id[p], result[p], buffer[p]))
  /\ ret' = [ret EXCEPT ![p] = FinalResponse(result[p])]
  /\ lines' = [lines EXCEPT ![p] =
                 IF result[p].kind = "Ok" /\ Trim(buffer[p]) # <<>>
                 THEN @ \o <<Trim(buffer[p])>> ELSE @]
  /\ pc' = [pc EXCEPT ![p] = "returned"]
  /\ UNCHANGED <<pull_id, cancel_flag, map, lock, buffer, result, nread, path,
                 received, observed, cancelled, after>>
  /\ UNCHANGED cancelvars

\* ------------------------------------------------------ model_pull_cancel
\* entry: take the lock of the map
CancelLock(c, id) ==
  /\ cpc[c] = "idle"
  /\ ncancel < MaxCancels
  /\ lock = NoHolder
  /\ lock' = c
  /\ carg' = [carg EXCEPT ![c] = id]
  /\ cpc' = [cpc EXCEPT ![c] = "locked"]
  /\ ncancel' = ncancel + 1
  /\ UNCHANGED <<cancel_flag, map, cret, cancelled, after>>
  /\ UNCHANGED pullvars

\* variant: a known identifier sets every flag
CancelStore_All(m, flags, id) ==
  IF id \in DOMAIN m THEN [q \in DOMAIN flags |-> TRUE] ELSE flags

\* the flags after map.get(&pull_id) and the store
CancelStore(m, flags, id) ==
  IF id \in DOMAIN m THEN [flags EXCEPT ![m[id]] = TRUE] ELSE flags

\* variant: the response is success whether or not the identifier is known
CancelResponse_AlwaysOk(m, id) == Response(TRUE, "")

\* the response of model_pull_cancel
CancelResponse(m, id) ==
  IF id \in DOMAIN m THEN Response(TRUE, "") ELSE Response(FALSE, "Pull ID not found")

\* look the identifier up, set its flag, return and release the lock
Cancel(c) ==
  /\ cpc[c] = "locked"
  /\ lock = c
  /\ cancel_flag' = CancelStore(map, cancel_flag, carg[c])
  /\ cret' = [cret EXCEPT ![c] = CancelResponse(map, carg[c])]
  /\ cancelled' = [p \in Pulls |->
                     IF cancelled[p] = "" /\ carg[c] \in DOMAIN map /\ map[carg[c]] = p
                     THEN pc[p] ELSE cancelled[p]]
  /\ lock' = NoHolder
  /\ cpc' = [cpc EXCEPT ![c] = "idle"]
  /\ UNCHANGED <<map, carg, ncancel, after>>
  /\ UNCHANGED pullvars

\* ---------------------------------------------------------- specification
PullStep(p, chunks) ==
  \/ \E idopt \in CallerIds \cup {None} : Start(p, idopt)
  \/ Register(p)
  \/ BuildOk(p)
  \/ \E msg \in BuildErrMsgs : BuildErr(p, msg)
  \/ \E msg \in SendErrMsgs : SendErr(p, msg)
  \/ \E status \in Statuses : SendOk(p, status)
  \/ Check(p)
  \/ \E bytes \in chunks : NextOk(p, bytes)
  \/ \E msg \in ErrMsgs : NextErr(p, msg)
  \/ NextNone(p)
  \/ LockCleanup(p)
  \/ Cleanup(p)
  \/ Finish(p)

CancelStep(c) ==
  \/ \E id \in AllIds : CancelLock(c, id)
  \/ Cancel(c)

\* concurrent pulls and cancel calls, streams made of short text chunks
Next ==
  \/ \E p \in Pulls : PullStep(p, LineChunks)
  \/ \E c \in Cancellers : CancelStep(c)

Spec == Init /\ [][Next]_vars

\* the steps of a started pull: its own code and the outcomes of the transport
\* operations it awaits
PullRun(p) ==
  \/ Register(p)
  \/ BuildOk(p)
  \/ \E msg \in BuildErrMsgs : BuildErr(p, msg)
  \/ \E msg \in SendErrMsgs : SendErr(p, msg)
  \/ \E status \in Statuses : SendOk(p, status)
  \/ Check(p)
  \/ \E bytes \in LineChunks : NextOk(p, bytes)
  \/ \E msg \in ErrMsgs : NextErr(p, msg)
  \/ NextNone(p)
  \/ LockCleanup(p)
  \/ Cleanup(p)
  \/ Finish(p)

\* every started pull keeps taking steps, every awaited transport operation
\* yields, and a cancel call that holds the lock finishes
Fairness ==
  /\ \A p \in Pulls : WF_vars(PullRun(p))
  /\ \A c \in Cancellers : WF_vars(Cancel(c))

\* concurrent pulls and cancel calls, every chunk one complete line
NextFair ==
  \/ \E p \in Pulls : PullStep(p, {<<49, 10>>})
  \/ \E c \in Cancellers : CancelStep(c)

SpecFair == Init /\ [][NextFair]_vars /\ Fairness

\* one pull that is never cancelled, streams made of arbitrary byte chunks
NextBytes == PullStep(1, ByteChunks)

SpecBytes == Init /\ [][NextBytes]_vars

\* ------------------------------------------------------------ properties
Count(evs, name) == Cardinality({i \in 1..Len(evs) : evs[i].ev = name})

IsProgress(e) == e.ev = "pull-progress"
Progress(evs) == SelectSeq(evs, IsProgress)

Terminal == {"pull-complete", "pull-cancelled", "pull-error"}

\* the invocation has started and has not returned to its caller
Active(p) == pc[p] \notin {"idle", "returned"}

\* the registry holds the flag of invocation p under p's identifier
Registered(p) == pull_id[p] \in DOMAIN map /\ map[pull_id[p]] = p

\* the exit paths of model_pull after pull-start: request not sent, non-success
\* status, cancellation observed, transport error while streaming, end of stream
StartedExits == {"send", "status", "cancel", "error", "eof"}
LoopExits == {"cancel", "error", "eof"}

\* C1: when model_pull has returned on any of the exit paths (stream completed,
\* cancellation observed, transport error, non-success status, request not
\* sent), its identifier is absent from the registry unless another pull with
\* that identifier is active
C1_AbsentAfterReturn ==
  \A p \in Pulls :
    (pc[p] = "returned" /\ path[p] \in StartedExits) =>
      \/ pull_id[p] \notin DOMAIN map
      \/ \E q \in Pulls \ {p} : Active(q) /\ pull_id[q] = pull_id[p]

\* the positions of a pull up to the exit of its streaming loop
BeforeLoopExit == {"register", "build", "send", "check", "next"}

\* C2: a pull that a successful cancel hit before its streaming loop exited
\* ends Cancelled once the loop has exited: it has published one
\* pull-cancelled, no pull-complete and no pull-error, and its registry entry
\* is gone
C2_CancelWins ==
  \A p \in Pulls :
    (cancelled[p] \in BeforeLoopExit /\ pc[p] = "returned" /\ path[p] \in LoopExits) =>
      /\ Count(events[p], "pull-cancelled") = 1
      /\ Count(events[p], "pull-complete") = 0
      /\ Count(events[p], "pull-error") = 0
      /\ ~Registered(p)

\* the segments of a decoded stream: the spans between newlines, the last one
\* possibly unterminated, trimmed, the empty ones left out
RECURSIVE Segments(_)
Segments(text) ==
  LET pos == find(text)
      seg == Trim(IF pos = 0 THEN text ELSE SubSeq(text, 1, pos - 1))
      here == IF seg = <<>> THEN <<>> ELSE <<seg>>
  IN IF pos = 0 THEN here ELSE here \o Segments(SubSeq(text, pos + 1, Len(text)))

\* the payload a segment stands for: its JSON value or the parse-error wrapper
Payload(seg) == IF IsJson(seg) THEN ParsedProgress(seg) ELSE ParsingError(seg)

\* C3: a pull that read its whole stream, however it was split into chunks,
\* has published exactly one pull-progress per non-empty trimmed segment of
\* the concatenated stream, in the order of the segments
C3_OnePerSegment ==
  \A p \in Pulls :
    (pc[p] = "returned" /\ path[p] = "eof") =>
      LET segs == Segments(from_utf8_lossy(received[p]))
          prog == Progress(events[p])
      IN /\ Len(prog) = Len(segs)
         /\ \A i \in 1..Len(prog) : prog[i].progress = Payload(segs[i])

IsParsingError(e) == IsProgress(e) /\ e.progress.status = "parsing_error"
NotJson(line) == ~IsJson(line)

\* C4: every extracted non-empty line that is not JSON, newline-terminated or
\* the remainder flushed at end of stream, has one pull-progress that carries
\* the parse-error marker and the raw line; none is dropped
C4_NoLineDropped ==
  \A p \in Pulls :
    LET bad == SelectSeq(lines[p], NotJson)
        errs == SelectSeq(events[p], IsParsingError)
    IN /\ Len(errs) = Len(bad)
       /\ \A i \in 1..Len(errs) : errs[i].progress.raw = bad[i]

\* C5: a pull whose initial request could not be sent or got a non-success
\* status has published exactly one pull-error with the failure detail and
\* no pull-progress, and has returned a non-success result
C5_InitialFailure ==
  \A p \in Pulls :
    (pc[p] = "returned" /\ path[p] \in {"send", "status"}) =>
      /\ Count(events[p], "pull-error") = 1
      /\ \A i \in 1..Len(events[p]) :
           events[p][i].ev = "pull-error" => events[p][i].error = ret[p].error
      /\ Count(events[p], "pull-progress") = 0
      /\ ~ret[p].success

\* C6: the notifications of a pull are one pull-start, then pull-progress
\* only, then one terminal notification that is the last; a pull that has
\* returned after pull-start has published its terminal notification
C6_Lifecycle ==
  \A p \in Pulls :
    LET evs == events[p] IN
      /\ \A i \in 1..Len(evs) : (evs[i].ev = "pull-start") <=> (i = 1)
      /\ \A i \in 1..Len(evs) : evs[i].ev \in Terminal => i = Len(evs)
      /\ \A i \in 2..Len(evs) : evs[i].ev \in Terminal \cup {"pull-progress"}
      /\ (pc[p] = "returned" /\ evs # <<>>) => evs[Len(evs)].ev \in Terminal

\* C7: model_pull_cancel on an identifier that has no registry entry returns
\* the not-found response and changes neither the registry nor any flag,
\* wherever the running pulls are
C7_NotFound ==
  [][\A c \in Cancellers :
       (cpc[c] = "locked" /\ cpc'[c] = "idle" /\ carg[c] \notin DOMAIN map) =>
         /\ cret'[c] = Response(FALSE, "Pull ID not found")
         /\ map' = map
         /\ cancel_flag' = cancel_flag]_vars

\* a cancel call came back not-found while a pull awaits its next chunk
C7_Witness ==
  \E c \in Cancellers, p \in Pulls :
    /\ cret[c] = Response(FALSE, "Pull ID not found")
    /\ carg[c] \notin DOMAIN map
    /\ pc[p] = "next"
    /\ Registered(p)

\* C8: once the loop has seen the flag set at its check point, the pull reads
\* no further chunk and publishes no further pull-progress, and it returns
\* with exactly one pull-cancelled and the failure "Cancelled by user"
C8_CancelAtCheck ==
  /\ [][\A p \in Pulls :
          observed'[p] =>
            /\ pc'[p] \in {"lock_cleanup", "cleanup", "finish", "returned"}
            /\ nread'[p] = nread[p]
            /\ Progress(events'[p]) = Progress(events[p])]_vars
  /\ [](\A p \in Pulls :
          (observed[p] /\ pc[p] = "returned") =>
            /\ Count(events[p], "pull-cancelled") = 1
            /\ events[p][Len(events[p])].ev = "pull-cancelled"
            /\ ret[p] = Response(FALSE, "Cancelled by user"))

\* a pull was cancelled at the check point after its first chunk and returned
C8_Witness ==
  \E p \in Pulls :
    /\ observed[p]
    /\ pc[p] = "returned"
    /\ nread[p] = 1
    /\ Len(Progress(events[p])) = 1

\* C9: a pull whose stream ended has published one pull-progress per
\* extracted line, the unterminated non-empty remainder included, then one
\* pull-complete, and returned success; a pull returns success only after
\* it published pull-complete
C9_Completion ==
  \A p \in Pulls :
    /\ (pc[p] = "returned" /\ path[p] = "eof") =>
         /\ Len(Progress(events[p])) = Len(lines[p])
         /\ Count(events[p], "pull-complete") = 1
         /\ events[p][Len(events[p])].ev = "pull-complete"
         /\ ret[p] = Response(TRUE, "")
    /\ ret[p].success => Count(events[p], "pull-complete") = 1

Streaming(p) == pc[p] \in {"check", "next"}

\* C11: every pull in the Streaming state has a registry entry under its
\* identifier that holds its own flag, whatever identifiers the pulls were
\* started with
C11_StreamingRegistered ==
  \A p \in Pulls : Streaming(p) => Registered(p)

\* C12: registering an identifier that an active pull holds in the registry
\* does not replace the entry: the earlier pull's flag stays registered
C12_NoReplace ==
  [][\A p \in Pulls :
       (/\ pc[p] = "register"
        /\ pc'[p] = "build"
        /\ pull_id[p] \in DOMAIN map
        /\ map[pull_id[p]] # p
        /\ Active(map[pull_id[p]])) =>
         map'[pull_id[p]] = map[pull_id[p]]]_vars

\* C13: a pull that a successful cancel hit in its streaming loop reads at
\* most one further chunk, the read that was in flight, and none when the
\* cancel landed before the check; the cancel call itself leaves the
\* position and the loop value of every pull as they are
C13_AtMostOneChunk ==
  /\ [](\A p \in Pulls :
          /\ cancelled[p] = "next" => after[p] <= 1
          /\ cancelled[p] = "check" => after[p] = 0)
  /\ [][\A c \in Cancellers :
          (cpc[c] = "locked" /\ cpc'[c] = "idle") =>
            (pc' = pc /\ result' = result /\ path' = path)]_vars

\* a cancel landed during a read, the read delivered its chunk, and the pull
\* then ended at the check point
C13_Witness ==
  \E p \in Pulls :
    /\ cancelled[p] = "next"
    /\ after[p] = 1
    /\ observed[p]
    /\ pc[p] = "returned"

\* the pull is blocked on network I/O
Awaiting(p) == pc[p] \in {"send", "next"}

\* C14 as stated: whenever some pull is blocked on network I/O the lock of
\* the registry is free
C14_LockFreeDuringIO ==
  (\E p \in Pulls : Awaiting(p)) => lock = NoHolder

\* C14: the lock of the registry is never held by a pull that is blocked on
\* network I/O; its holder is always inside a map operation whose next step
\* is enabled and releases the lock
C14_LockNotHeldAcrossIO ==
  /\ \A p \in Pulls : Awaiting(p) => lock # p
  /\ \A p \in Pulls :
       lock = p => (pc[p] \in {"register", "cleanup"} /\ ENABLED (Register(p) \/ Cleanup(p)))
  /\ \A c \in Cancellers : lock = c => (cpc[c] = "locked" /\ ENABLED Cancel(c))
  /\ lock \in {NoHolder} \cup Pulls \cup Cancellers

\* a cancel call holds the lock while a pull awaits its next chunk
C14_Witness ==
  \E p \in Pulls, c \in Cancellers : pc[p] = "next" /\ lock = c

\* the step of a cancel caller that looks its identifier up and returns
CancelReturns(c) == cpc[c] = "locked" /\ cpc'[c] = "idle"

\* C15: a pull registers a flag that is false, and a cancel whose identifier
\* no active pull has, every pull started with it having returned after its
\* pull-start, never returns success
C15_NoStaleCancel ==
  /\ [](\A p \in Pulls : pc[p] = "register" => ~cancel_flag[p])
  /\ [][\A c \in Cancellers :
          (/\ CancelReturns(c)
           /\ \A p \in Pulls :
                pull_id[p] = carg[c] => (pc[p] = "returned" /\ path[p] \in StartedExits)) =>
            ~cret'[c].success]_vars

\* C16: a flag is false when it is registered; it changes only from false to
\* true and only in a cancel call whose identifier maps to it; a cancel call
\* leaves the registry as it is
C16_TokenFrame ==
  /\ [](\A p \in Pulls : pc[p] = "register" => ~cancel_flag[p])
  /\ [][\A p \in Pulls :
          cancel_flag'[p] # cancel_flag[p] =>
            /\ ~cancel_flag[p]
            /\ cancel_flag'[p]
            /\ \E c \in Cancellers :
                 CancelReturns(c) /\ carg[c] \in DOMAIN map /\ map[carg[c]] = p]_vars
  /\ [][\A c \in Cancellers : CancelReturns(c) => map' = map]_vars

\* two pulls are registered under different identifiers, a cancel has set
\* the flag of one and the flag of the other is still false
C16_Witness ==
  \E p, q \in Pulls :
    /\ Registered(p) /\ Registered(q)
    /\ pull_id[p] # pull_id[q]
    /\ cancel_flag[p] /\ ~cancel_flag[q]

\* C18: when a pull publishes its notifications after the loop, trailing
\* pull-progress and terminal notification, its own entry is gone and its
\* identifier is absent from the registry unless another pull registered it
C18_RemovedBeforeTerminal ==
  /\ [][\A p \in Pulls :
          (pc[p] = "finish" /\ pc'[p] = "returned") =>
            /\ events'[p] # events[p]
            /\ events'[p][Len(events'[p])].ev \in Terminal
            /\ \/ pull_id[p] \notin DOMAIN map
               \/ \E q \in Pulls \ {p} : Registered(q) /\ pull_id[q] = pull_id[p]]_vars
  /\ [](\A p \in Pulls :
          (path[p] \in LoopExits /\ pc[p] \in {"finish", "returned"}) => ~Registered(p))

\* a pull has published pull-complete and a cancel on its identifier, which
\* never reached its flag, came back not-found
C18_Witness ==
  \E p \in Pulls, c \in Cancellers :
    /\ pc[p] = "returned" /\ path[p] = "eof"
    /\ Count(events[p], "pull-complete") = 1
    /\ carg[c] = pull_id[p]
    /\ cret[c] = Response(FALSE, "Pull ID not found")
    /\ pull_id[p] \notin DOMAIN map

\* everything of pull q that another pull or a cancel could touch
Unchanged(q) ==
  /\ pc'[q] = pc[q]
  /\ cancel_flag'[q] = cancel_flag[q]
  /\ buffer'[q] = buffer[q]
  /\ events'[q] = events[q]
  /\ result'[q] = result[q]
  /\ ret'[q] = ret[q]
  /\ (pull_id[q] \in DOMAIN map') = (pull_id[q] \in DOMAIN map)
  /\ pull_id[q] \in DOMAIN map => map'[pull_id[q]] = map[pull_id[q]]

\* C19: with distinct identifiers, no step of one pull and no cancel call on
\* its identifier changes the flag, the registry entry, the line buffer, the
\* notifications, the position or the results of another pull
C19_Isolation ==
  [][\A p, q \in Pulls :
       (p # q /\ pc'[p] # "idle" /\ pc[q] # "idle" /\ pull_id'[p] # pull_id[q]) =>
         /\ pc'[p] # pc[p] => Unchanged(q)
         /\ (\E c \in Cancellers : CancelReturns(c) /\ carg[c] = pull_id[p]) => Unchanged(q)]_vars

\* one pull was cancelled and the other, under a different identifier, ran
\* to completion with its flag still false
C19_Witness ==
  \E p, q \in Pulls :
    /\ pull_id[p] # pull_id[q]
    /\ pc[p] = "returned" /\ Count(events[p], "pull-cancelled") = 1
    /\ pc[q] = "returned" /\ Count(events[q], "pull-complete") = 1
    /\ cancel_flag[p] /\ ~cancel_flag[q]

\* C17: every started pull eventually returns to its caller; a pull whose
\* loop failed has then published a terminal notification, returned a
\* failure result and removed its registry entry
C17_Terminates ==
  /\ \A p \in Pulls : (pc[p] # "idle") ~> (pc[p] = "returned")
  /\ [](\A p \in Pulls :
          (pc[p] = "returned" /\ path[p] = "error") =>
            /\ events[p][Len(events[p])].ev \in Terminal
            /\ ret[p] = Response(FALSE, result[p].error)
            /\ ~Registered(p))

\* a pull whose chunk read failed has returned
C17_Witness ==
  \E p \in Pulls : pc[p] = "returned" /\ path[p] = "error" /\ nread[p] >= 1

====
